---- MODULE Spec2Model ----
(***************************************************************************)
(* Subtitle-track alignment tools: the SRT parser (parse_srt_file,         *)
(* parse_timestamp), the sync-boundary finder (find_last_good_sync), the   *)
(* issue classifier (find_sync_issues) and the range verifier              *)
(* (verify_range_sync).  Each tool is a batch run over immutable inputs;   *)
(* its loop is modelled one iteration per step.                            *)
(*                                                                         *)
(* The parser builds a Subtitle with its five fields.  The tracks given to  *)
(* the three analyses hold the two fields they compute with, index and     *)
(* timestamp_ms (start_time, end_time and text are only printed).  A       *)
(* Python list holds object references: a bucket entry is modelled by the  *)
(* position of the object in its track.                                    *)
(***************************************************************************)
EXTENDS Integers, Sequences, FiniteSets, TLC

VARIABLES
    en_subs,            \* reference track (list of Subtitle)
    es_subs,            \* candidate track (list of Subtitle)
    pc,                 \* position of the running tool
    en_by_index,        \* {sub.index: sub for sub in en_subs}
    es_by_index,        \* {sub.index: sub for sub in es_subs}
    stop,               \* the last value of the range(...) being walked
    i,                  \* loop variable of the range(...) loops
    last_good,          \* find_last_good_sync
    consecutive_good,   \* find_last_good_sync
    start_range,        \* verify_range_sync argument
    end_range,          \* verify_range_sync argument
    errors,             \* verify_range_sync
    warnings,           \* verify_range_sync
    good_count,         \* verify_range_sync
    es_by_time,         \* find_sync_issues: timestamp -> candidate records
    issues,             \* find_sync_issues: the four buckets
    cursor,             \* position of the for-each loops (en_subs, blocks)
    content,            \* parse_srt_file: the text of the file
    blocks,             \* parse_srt_file: the blocks of the file content
    subtitles,          \* parse_srt_file: the list being built
    time_str,           \* parse_timestamp: the clock text to decode
    clock,              \* the components time_str is written from
    result,             \* the value returned by the tool
    raised              \* the exception that left the tool, or "none"

vars == <<en_subs, es_subs, pc, en_by_index, es_by_index, stop, i, last_good,
          consecutive_good, start_range, end_range, errors, warnings,
          good_count, es_by_time, issues, cursor, content, blocks,
          subtitles, time_str, clock, result, raised>>

tracks == <<en_subs, es_subs>>
maps == <<en_by_index, es_by_index, stop>>
codecVars == <<time_str, clock>>
finderVars == <<last_good, consecutive_good>>
verifierVars == <<start_range, end_range, errors, warnings, good_count>>
classifierVars == <<es_by_time, issues>>
parserVars == <<content, blocks, subtitles>>

-----------------------------------------------------------------------------
(* Bounds of the model *)

\* sequence numbers of the finder's input tracks are drawn from 1..MaxIndex
MaxIndex == 6

\* sequence numbers of the verifier's input tracks are drawn from 1..MaxVerifyIndex
MaxVerifyIndex == 3

\* the classifier's reference track holds at most MaxEnLen records
MaxEnLen == 2

\* the classifier's candidate track holds at most MaxEsLen records
MaxEsLen == 3

\* the parser's file holds at most MaxBlocks blocks
MaxBlocks == 2

\* a clock text given to parse_timestamp holds at most MaxClockParts components
MaxClockParts == 5

-----------------------------------------------------------------------------
(* Helpers shared by the tools *)

Abs(x) == IF x < 0 THEN -x ELSE x

Min(a, b) == IF a <= b THEN a ELSE b

MaxOf(S) == CHOOSE x \in S : \A y \in S : y <= x

Subtitle(idx, ms) == [index |-> idx, timestamp_ms |-> ms]

\* the numbers of 1..n that are in S, ascending
RECURSIVE Ascending(_, _)
Ascending(n, S) ==
    IF n = 0 THEN <<>>
    ELSE IF n \in S THEN Append(Ascending(n - 1, S), n)
    ELSE Ascending(n - 1, S)

\* {sub.index: sub for sub in subs}: a later record of the same index
\* replaces an earlier one
ByIndex(subs) ==
    [k \in {subs[p].index : p \in DOMAIN subs} |->
        subs[MaxOf({p \in DOMAIN subs : subs[p].index = k})]]

-----------------------------------------------------------------------------
(* find_last_good_sync *)

\* tolerance test of the boundary finder
GoodSyncMutant(time_diff) == time_diff <= 501
GoodSync(time_diff) == time_diff <= 500

\* streak test of the boundary finder
StreakReachedMutant(c) == c > 5
StreakReached(c) == c >= 5

\* max(d.keys()) raises ValueError on an empty dict
MaxKeyRaises(d) == DOMAIN d = {}

\* the last value of range(1, min(max(en keys), max(es keys)) + 1)
FinderLimit(en, es) == Min(MaxOf(DOMAIN en), MaxOf(DOMAIN es))

\* lines 73-81: the maps, the counters and the range of the loop
FinderStart ==
    /\ pc = "finder_start"
    /\ en_by_index' = ByIndex(en_subs)
    /\ es_by_index' = ByIndex(es_subs)
    /\ last_good' = 0
    /\ consecutive_good' = 0
    /\ IF MaxKeyRaises(en_by_index') \/ MaxKeyRaises(es_by_index')
       THEN /\ raised' = "ValueError"
            /\ pc' = "raised"
            /\ UNCHANGED <<i, stop>>
       ELSE /\ stop' = FinderLimit(en_by_index', es_by_index')
            /\ i' = 1
            /\ pc' = "finder_loop"
            /\ UNCHANGED raised
    /\ UNCHANGED <<codecVars, tracks, verifierVars, classifierVars, parserVars, cursor, result>>

FinderInLoop ==
    /\ pc = "finder_loop"
    /\ i <= stop

\* lines 85-88: a record is missing in one of the tracks
FinderMissing ==
    /\ FinderInLoop
    /\ (i \notin DOMAIN en_by_index \/ i \notin DOMAIN es_by_index)
    /\ consecutive_good' = 0
    /\ i' = i + 1
    /\ UNCHANGED <<codecVars, last_good, pc, raised, tracks, maps, verifierVars, classifierVars,
                   parserVars, cursor, result>>

FinderTimeDiff ==
    Abs(en_by_index[i].timestamp_ms - es_by_index[i].timestamp_ms)

\* lines 91-96: within tolerance
FinderGood ==
    /\ FinderInLoop
    /\ i \in DOMAIN en_by_index /\ i \in DOMAIN es_by_index
    /\ GoodSync(FinderTimeDiff)
    /\ consecutive_good' = consecutive_good + 1
    /\ last_good' = IF StreakReached(consecutive_good + 1) THEN i ELSE last_good
    /\ i' = i + 1
    /\ UNCHANGED <<codecVars, pc, raised, tracks, maps, verifierVars, classifierVars, parserVars,
                   cursor, result>>

\* lines 97-101: out of tolerance
FinderDesyncMutant ==
    /\ FinderInLoop
    /\ i \in DOMAIN en_by_index /\ i \in DOMAIN es_by_index
    /\ ~GoodSync(FinderTimeDiff)
    /\ i' = i + 1
    /\ UNCHANGED <<codecVars, finderVars, pc, raised, tracks, maps, verifierVars,
                   classifierVars, parserVars, cursor, result>>
FinderDesync ==
    /\ FinderInLoop
    /\ i \in DOMAIN en_by_index /\ i \in DOMAIN es_by_index
    /\ ~GoodSync(FinderTimeDiff)
    /\ consecutive_good' = 0
    /\ i' = i + 1
    /\ UNCHANGED <<codecVars, last_good, pc, raised, tracks, maps, verifierVars, classifierVars,
                   parserVars, cursor, result>>

\* line 108
FinderReturn ==
    /\ pc = "finder_loop"
    /\ i > stop
    /\ result' = last_good
    /\ pc' = "done"
    /\ UNCHANGED <<codecVars, i, finderVars, raised, tracks, maps, verifierVars, classifierVars,
                   parserVars, cursor>>

\* Input tracks of the finder: per sequence number n of 1..MaxIndex one of
\* the cases below; the reference record of n starts at n seconds.
FinderCases == {"same", "late500", "early501", "no_es", "no_en", "neither"}

FinderEnTrack(f) ==
    LET present == {n \in DOMAIN f : f[n] \notin {"no_en", "neither"}}
        order == Ascending(MaxIndex, present)
    IN  [p \in DOMAIN order |-> Subtitle(order[p], order[p] * 1000)]

FinderEsOffset(c) ==
    CASE c = "late500" -> 500
      [] c = "early501" -> -501
      [] OTHER -> 0

FinderEsTrack(f) ==
    LET present == {n \in DOMAIN f : f[n] \notin {"no_es", "neither"}}
        order == Ascending(MaxIndex, present)
    IN  [p \in DOMAIN order |->
            Subtitle(order[p], order[p] * 1000 + FinderEsOffset(f[order[p]]))]

Idle ==
    /\ en_by_index = <<>> /\ es_by_index = <<>> /\ stop = 0
    /\ i = 0 /\ last_good = 0 /\ consecutive_good = 0
    /\ start_range = 0 /\ end_range = 0
    /\ errors = <<>> /\ warnings = <<>> /\ good_count = 0
    /\ es_by_time = <<>> /\ issues = <<>>
    /\ cursor = 0
    /\ subtitles = <<>>
    /\ result = 0
    /\ raised = "none"

InitFinder ==
    /\ time_str = <<>> /\ clock = <<>>
    /\ \E f \in [1..MaxIndex -> FinderCases] :
          /\ en_subs = FinderEnTrack(f)
          /\ es_subs = FinderEsTrack(f)
    /\ content = <<>> /\ blocks = <<>>
    /\ pc = "finder_start"
    /\ Idle

NextFinder ==
    \/ FinderStart
    \/ FinderMissing
    \/ FinderGood
    \/ FinderDesync
    \/ FinderReturn

SpecFinder == InitFinder /\ [][NextFinder]_vars

-----------------------------------------------------------------------------
(* Properties of find_last_good_sync *)

\* the sequence numbers of a track
Indices(subs) == {subs[p].index : p \in DOMAIN subs}

\* sequence number n is correctly aligned: both tracks hold a record n and
\* the two start within 500 ms of each other
Aligned(n) ==
    \E p \in DOMAIN en_subs, q \in DOMAIN es_subs :
        /\ en_subs[p].index = n
        /\ es_subs[q].index = n
        /\ Abs(en_subs[p].timestamp_ms - es_subs[q].timestamp_ms) <= 500

\* C1 (as claimed): if the returned L is greater than 0, every sequence
\* number of 1..L is correctly aligned.
C1_PrefixAligned ==
    (pc = "done" /\ result > 0) => \A n \in 1..result : Aligned(n)

IdenticalTracks == en_subs = es_subs /\ en_subs # <<>>

\* C2 (as claimed): identical non-empty tracks yield the track's maximum
\* sequence number.
C2_IdenticalGivesMax ==
    (pc = "done" /\ IdenticalTracks) => result = MaxOf(Indices(en_subs))

\* the track holds the five sequence numbers max-4..max
LastFivePresent(subs) ==
    LET m == MaxOf(Indices(subs))
    IN  m >= 5 /\ \A n \in (m - 4)..m : n \in Indices(subs)

\* C2 (amended): on identical non-empty tracks the finder ends without an
\* error, and it returns the maximum sequence number exactly when the track
\* holds all five sequence numbers max-4..max; otherwise it returns less.
C2_IdenticalGivesMaxAfterWarmUp ==
    IdenticalTracks =>
        /\ pc # "raised"
        /\ pc = "done" =>
              /\ result <= MaxOf(Indices(en_subs))
              /\ (result = MaxOf(Indices(en_subs))) <=> LastFivePresent(en_subs)

\* identical tracks with a gap before the last five records: the maximum is
\* returned
C2_Witness ==
    /\ pc = "done"
    /\ IdenticalTracks
    /\ 1 \notin Indices(en_subs)
    /\ result = MaxIndex

\* C4 (as claimed): no analysis is left by an error.
C4_NeverAborts == pc # "raised" /\ raised = "none"

-----------------------------------------------------------------------------
(* verify_range_sync *)

\* the entries of errors and warnings: the message kind and the #i it names
Report(kind, n) == [kind |-> kind, i |-> n]

\* severity tiers of the range verifier (lines 98, 102)
IsDesyncMutant(time_diff) == time_diff > 50
IsDesync(time_diff) == time_diff > 100

IsMinor(time_diff) == time_diff > 50

\* lines 108-111: the chronological check that ends a compared iteration
OutOfOrder ==
    /\ i > start_range
    /\ (i - 1) \in DOMAIN es_by_index
    /\ es_by_index[i].timestamp_ms < es_by_index[i - 1].timestamp_ms

WithOrderCheck(errs) ==
    IF OutOfOrder THEN Append(errs, Report("order", i)) ELSE errs

\* line 144
RangeIsCleanMutant(errs, warns) == Len(errs) = 0 /\ Len(warns) = 0
RangeIsClean(errs, warns) == Len(errs) = 0

\* lines 74-83
VerifierStart ==
    /\ pc = "verifier_start"
    /\ en_by_index' = ByIndex(en_subs)
    /\ es_by_index' = ByIndex(es_subs)
    /\ errors' = <<>>
    /\ warnings' = <<>>
    /\ good_count' = 0
    /\ i' = start_range
    /\ stop' = end_range
    /\ pc' = "verifier_loop"
    /\ UNCHANGED <<codecVars, tracks, finderVars, start_range, end_range, classifierVars,
                   parserVars, cursor, result, raised>>

VerifierInLoop ==
    /\ pc = "verifier_loop"
    /\ i <= stop

VerifierTimeDiff ==
    Abs(en_by_index[i].timestamp_ms - es_by_index[i].timestamp_ms)

\* lines 87-89
VerifierMissingEn ==
    /\ VerifierInLoop
    /\ i \notin DOMAIN en_by_index
    /\ errors' = Append(errors, Report("missing_en", i))
    /\ i' = i + 1
    /\ UNCHANGED <<codecVars, warnings, good_count, start_range, end_range, pc, tracks, maps,
                   finderVars, classifierVars, parserVars, cursor, result, raised>>

\* lines 91-93
VerifierMissingEs ==
    /\ VerifierInLoop
    /\ i \in DOMAIN en_by_index
    /\ i \notin DOMAIN es_by_index
    /\ errors' = Append(errors, Report("missing_es", i))
    /\ i' = i + 1
    /\ UNCHANGED <<codecVars, warnings, good_count, start_range, end_range, pc, tracks, maps,
                   finderVars, classifierVars, parserVars, cursor, result, raised>>

VerifierBothPresent ==
    /\ VerifierInLoop
    /\ i \in DOMAIN en_by_index
    /\ i \in DOMAIN es_by_index

\* lines 98-101, then 108-111
VerifierDesync ==
    /\ VerifierBothPresent
    /\ IsDesync(VerifierTimeDiff)
    /\ errors' = WithOrderCheck(Append(errors, Report("desync", i)))
    /\ i' = i + 1
    /\ UNCHANGED <<codecVars, warnings, good_count, start_range, end_range, pc, tracks, maps,
                   finderVars, classifierVars, parserVars, cursor, result, raised>>

\* lines 102-103, then 108-111
VerifierMinor ==
    /\ VerifierBothPresent
    /\ ~IsDesync(VerifierTimeDiff)
    /\ IsMinor(VerifierTimeDiff)
    /\ warnings' = Append(warnings, Report("minor", i))
    /\ errors' = WithOrderCheck(errors)
    /\ i' = i + 1
    /\ UNCHANGED <<codecVars, good_count, start_range, end_range, pc, tracks, maps,
                   finderVars, classifierVars, parserVars, cursor, result, raised>>

\* lines 104-105, then 108-111
VerifierPerfect ==
    /\ VerifierBothPresent
    /\ ~IsDesync(VerifierTimeDiff)
    /\ ~IsMinor(VerifierTimeDiff)
    /\ good_count' = good_count + 1
    /\ errors' = WithOrderCheck(errors)
    /\ i' = i + 1
    /\ UNCHANGED <<codecVars, warnings, start_range, end_range, pc, tracks, maps,
                   finderVars, classifierVars, parserVars, cursor, result, raised>>

\* lines 113-144: the report reads the state and changes nothing
VerifierReturn ==
    /\ pc = "verifier_loop"
    /\ i > stop
    /\ result' = RangeIsClean(errors, warnings)
    /\ pc' = "done"
    /\ UNCHANGED <<codecVars, i, errors, warnings, good_count, start_range, end_range, tracks,
                   maps, finderVars, classifierVars, parserVars, cursor, raised>>

\* Input tracks of the verifier: per sequence number of 1..MaxVerifyIndex the
\* reference record is absent or starts at 1000 ms, the candidate record is
\* absent or starts 101, 50, 51 or 100 ms away from it.
VerifierEnTimes == {1000}
VerifierEsTimes == {899, 950, 1051, 1100}

VerifierTrack(f) ==
    LET order == Ascending(MaxVerifyIndex, {n \in DOMAIN f : f[n] # 0})
    IN  [p \in DOMAIN order |-> Subtitle(order[p], f[order[p]])]

InitVerifier ==
    /\ time_str = <<>> /\ clock = <<>>
    /\ \E f \in [1..MaxVerifyIndex -> VerifierEnTimes \cup {0}] :
          en_subs = VerifierTrack(f)
    /\ \E f \in [1..MaxVerifyIndex -> VerifierEsTimes \cup {0}] :
          es_subs = VerifierTrack(f)
    /\ content = <<>> /\ blocks = <<>>
    /\ pc = "verifier_start"
    /\ en_by_index = <<>> /\ es_by_index = <<>> /\ stop = 0
    /\ i = 0 /\ last_good = 0 /\ consecutive_good = 0
    /\ \E s \in 1..MaxVerifyIndex, e \in 1..(MaxVerifyIndex + 1) :
          /\ s <= e
          /\ start_range = s
          /\ end_range = e
    /\ errors = <<>> /\ warnings = <<>> /\ good_count = 0
    /\ es_by_time = <<>> /\ issues = <<>>
    /\ cursor = 0
    /\ subtitles = <<>>
    /\ result = 0
    /\ raised = "none"

NextVerifier ==
    \/ VerifierStart
    \/ VerifierMissingEn
    \/ VerifierMissingEs
    \/ VerifierDesync
    \/ VerifierMinor
    \/ VerifierPerfect
    \/ VerifierReturn

SpecVerifier == InitVerifier /\ [][NextVerifier]_vars

-----------------------------------------------------------------------------
(* Properties of verify_range_sync *)

HasRecord(subs, n) == \E p \in DOMAIN subs : subs[p].index = n

\* the start_ms of the record numbered n (the input tracks of the verifier
\* hold at most one)
StartMs(subs, n) ==
    LET p == CHOOSE q \in DOMAIN subs : subs[q].index = n
    IN  subs[p].timestamp_ms

Count(seq, kinds, n) ==
    Cardinality({p \in DOMAIN seq : seq[p].kind \in kinds /\ seq[p].i = n})

CountKinds(seq, kinds) ==
    Cardinality({p \in DOMAIN seq : seq[p].kind \in kinds})

Window == start_range..end_range

\* C3 (as claimed): a candidate record earlier than the candidate record of
\* the previous sequence number gets a chronological-order error, whatever
\* the reference track holds at that number.
C3_OrderViolationAlwaysReported ==
    pc = "done" =>
        \A n \in Window :
            ( /\ n > start_range
              /\ HasRecord(es_subs, n)
              /\ HasRecord(es_subs, n - 1)
              /\ StartMs(es_subs, n) < StartMs(es_subs, n - 1) )
            => Count(errors, {"order"}, n) >= 1

\* the condition C8 states for a clean range
AllSynced ==
    \A n \in Window :
        /\ HasRecord(en_subs, n)
        /\ HasRecord(es_subs, n)
        /\ Abs(StartMs(en_subs, n) - StartMs(es_subs, n)) <= 100
        /\ n > start_range => StartMs(es_subs, n) >= StartMs(es_subs, n - 1)

\* C8: the verifier returns true exactly when no critical error was
\* recorded, which is exactly when every number of the window is present in
\* both tracks, within 100 ms, and not earlier than its predecessor in the
\* candidate track; warnings play no part.
C8_CleanIffAllSynced ==
    pc = "done" =>
        /\ result \in BOOLEAN
        /\ result <=> (Len(errors) = 0)
        /\ (Len(errors) = 0) <=> AllSynced

\* a clean range that holds a minor-deviation warning
C8_Witness ==
    /\ pc = "done"
    /\ result = TRUE
    /\ Len(warnings) >= 1
    /\ end_range > start_range

\* C9: an index with both records gets exactly one tier (desync error over
\* 100 ms, warning over 50 ms up to 100 ms, counted as perfect up to 50 ms),
\* an index with a missing record exactly one missing error and no tier;
\* the four counts add up to the size of the window.
C9_OneTierPerIndex ==
    pc = "done" =>
        /\ \A n \in Window :
              LET both == HasRecord(en_subs, n) /\ HasRecord(es_subs, n)
                  diff == Abs(StartMs(en_subs, n) - StartMs(es_subs, n))
                  missing == Count(errors, {"missing_en", "missing_es"}, n)
                  desync == Count(errors, {"desync"}, n)
                  minor == Count(warnings, {"minor"}, n)
              IN  IF both
                  THEN /\ missing = 0
                       /\ desync = (IF diff > 100 THEN 1 ELSE 0)
                       /\ minor = (IF diff > 50 /\ diff <= 100 THEN 1 ELSE 0)
                       /\ desync + minor <= 1
                  ELSE /\ missing = 1
                       /\ desync = 0
                       /\ minor = 0
        /\ good_count =
              Cardinality({n \in Window :
                  /\ HasRecord(en_subs, n) /\ HasRecord(es_subs, n)
                  /\ Abs(StartMs(en_subs, n) - StartMs(es_subs, n)) <= 50})
        /\ \A p \in DOMAIN errors : errors[p].i \in Window
        /\ \A p \in DOMAIN warnings : warnings[p].i \in Window
        /\ good_count + Len(warnings) + CountKinds(errors, {"desync"})
              + CountKinds(errors, {"missing_en", "missing_es"})
           = end_range - start_range + 1

\* a window in which each of the four outcomes happened
C9_Witness ==
    /\ pc = "done"
    /\ good_count >= 1
    /\ Len(warnings) >= 1
    /\ CountKinds(errors, {"desync"}) >= 1
    /\ CountKinds(errors, {"missing_en", "missing_es"}) >= 1

-----------------------------------------------------------------------------
(* find_sync_issues *)

\* A dict keeps its keys in insertion order: es_by_time is the sequence of
\* its items, each a timestamp with the list of the candidate records (their
\* positions in es_subs) that start at it.
HasKey(d, key) == \E k \in DOMAIN d : d[k].key = key

\* lines 83-88
RECURSIVE GroupByTime(_, _)
GroupByTime(subs, n) ==
    IF n = 0 THEN <<>>
    ELSE LET d == GroupByTime(subs, n - 1)
             time_key == subs[n].timestamp_ms
         IN  IF HasKey(d, time_key)
             THEN [k \in DOMAIN d |->
                      IF d[k].key = time_key
                      THEN [d[k] EXCEPT !.subs = Append(@, n)]
                      ELSE d[k]]
             ELSE Append(d, [key |-> time_key, subs |-> <<n>>])

\* line 95: es_by_time.get(key, [])
DictGet(d, key) ==
    IF HasKey(d, key)
    THEN d[CHOOSE k \in DOMAIN d : d[k].key = key].subs
    ELSE <<>>

\* proximity window of the close-match scan (line 101)
InWindow(distance) == distance <= 500

\* lines 99-102: the lists of the timestamps within the window, in dict order
RECURSIVE CloseMatches(_, _, _)
CloseMatches(d, n, ms) ==
    IF n = 0 THEN <<>>
    ELSE IF InWindow(Abs(d[n].key - ms))
         THEN CloseMatches(d, n - 1, ms) \o d[n].subs
         ELSE CloseMatches(d, n - 1, ms)

\* line 108: min(close_matches, key = distance) is the first of the nearest
BestMatch(close, ms) ==
    LET dist(p) == Abs(es_subs[close[p]].timestamp_ms - ms)
        best == CHOOSE p \in DOMAIN close :
                    /\ \A q \in DOMAIN close : dist(p) <= dist(q)
                    /\ \A q \in 1..(p - 1) : dist(q) > dist(p)
    IN  close[best]

\* drift threshold (line 109)
IsDriftMutant(distance) == distance >= 200
IsDrift(distance) == distance > 200

\* line 117: the candidate a reference record is matched with
MatchedCandidateMutant(exact_match) == exact_match[Len(exact_match)]
MatchedCandidate(exact_match) == exact_match[1]

\* line 105
RecordMissing(iss, en) ==
    [iss EXCEPT !.missing_in_es = Append(@, en)]

\* line 110
RecordDriftMutant(iss, en, es) ==
    [iss EXCEPT !.time_drifts = Append(@, <<en, es>>),
                !.missing_in_es = Append(@, en)]
RecordDrift(iss, en, es) ==
    [iss EXCEPT !.time_drifts = Append(@, <<en, es>>)]

\* lines 113-114: exact_match[1:] joins the duplicates
RecordDuplicates(iss, exact_match) ==
    IF Len(exact_match) > 1
    THEN [iss EXCEPT !.duplicates_in_es = @ \o Tail(exact_match)]
    ELSE iss

\* lines 118-119
RecordIndexMismatch(iss, en, es) ==
    IF en_subs[en].index # es_subs[es].index
    THEN [iss EXCEPT !.index_mismatches = Append(@, <<en, es>>)]
    ELSE iss

\* lines 75-93
ClassifierStart ==
    /\ pc = "classifier_start"
    /\ issues' = [missing_in_es |-> <<>>, duplicates_in_es |-> <<>>,
                  time_drifts |-> <<>>, index_mismatches |-> <<>>]
    /\ es_by_time' = GroupByTime(es_subs, Len(es_subs))
    /\ cursor' = 1
    /\ pc' = "classifier_loop"
    /\ UNCHANGED <<codecVars, tracks, maps, i, finderVars, verifierVars, parserVars, result,
                   raised>>

ClassifierInLoop ==
    /\ pc = "classifier_loop"
    /\ cursor <= Len(en_subs)

\* the record en_sub of the iteration and the lists computed from it
EnMs == en_subs[cursor].timestamp_ms
ExactMatch == DictGet(es_by_time, EnMs)
Close == CloseMatches(es_by_time, Len(es_by_time), EnMs)
BestDistance == Abs(es_subs[BestMatch(Close, EnMs)].timestamp_ms - EnMs)

ClassifierNext ==
    /\ cursor' = cursor + 1
    /\ UNCHANGED <<codecVars, es_by_time, pc, tracks, maps, i, finderVars, verifierVars,
                   parserVars, result, raised>>

\* lines 97-105: no exact and no close match
ClassifierMissing ==
    /\ ClassifierInLoop
    /\ Len(ExactMatch) = 0
    /\ Len(Close) = 0
    /\ issues' = RecordMissing(issues, cursor)
    /\ ClassifierNext

\* lines 106-110: the nearest close match is further than the drift threshold
ClassifierDrift ==
    /\ ClassifierInLoop
    /\ Len(ExactMatch) = 0
    /\ Len(Close) > 0
    /\ IsDrift(BestDistance)
    /\ issues' = RecordDrift(issues, cursor, BestMatch(Close, EnMs))
    /\ ClassifierNext

\* lines 106-109: an acceptable near match, nothing is recorded
ClassifierNearMatch ==
    /\ ClassifierInLoop
    /\ Len(ExactMatch) = 0
    /\ Len(Close) > 0
    /\ ~IsDrift(BestDistance)
    /\ UNCHANGED issues
    /\ ClassifierNext

\* lines 111-119: an exact match
ClassifierExact ==
    /\ ClassifierInLoop
    /\ Len(ExactMatch) > 0
    /\ issues' = RecordIndexMismatch(RecordDuplicates(issues, ExactMatch),
                                     cursor, MatchedCandidate(ExactMatch))
    /\ ClassifierNext

\* line 121
ClassifierReturn ==
    /\ pc = "classifier_loop"
    /\ cursor > Len(en_subs)
    /\ result' = issues
    /\ pc' = "done"
    /\ UNCHANGED <<codecVars, cursor, classifierVars, tracks, maps, i, finderVars,
                   verifierVars, parserVars, raised>>

\* Input tracks of the classifier: any list of at most MaxEnLen reference
\* records (#1 or #2, at 1000 or 1300 ms) against any list of at most
\* MaxEsLen candidate records (#1 or #2, at 1000, 1500 or 1501 ms, which are
\* 0, 500, 501 ms from the first and 300, 200, 201 ms from the second
\* reference time); and the scenario of the specification.
SeqsUpTo(S, n) == UNION {[1..k -> S] : k \in 0..n}

ClassifierEnRecords == {Subtitle(n, ms) : n \in {1, 2}, ms \in {1000, 1300}}
ClassifierEsRecords == {Subtitle(n, ms) : n \in {1, 2}, ms \in {1000, 1500, 1501}}

ScenarioEn == <<Subtitle(1, 1000), Subtitle(2, 2000)>>
ScenarioEs == <<Subtitle(1, 1050), Subtitle(2, 2900)>>

InitClassifier ==
    /\ time_str = <<>> /\ clock = <<>>
    /\ \/ /\ en_subs \in SeqsUpTo(ClassifierEnRecords, MaxEnLen)
          /\ es_subs \in SeqsUpTo(ClassifierEsRecords, MaxEsLen)
       \/ /\ en_subs = ScenarioEn
          /\ es_subs = ScenarioEs
    /\ content = <<>> /\ blocks = <<>>
    /\ pc = "classifier_start"
    /\ Idle

NextClassifier ==
    \/ ClassifierStart
    \/ ClassifierMissing
    \/ ClassifierDrift
    \/ ClassifierNearMatch
    \/ ClassifierExact
    \/ ClassifierReturn

SpecClassifier == InitClassifier /\ [][NextClassifier]_vars

-----------------------------------------------------------------------------
(* Properties of find_sync_issues *)

\* how many entries of a bucket of reference records are the record at p
InBucket(bucket, p) == Cardinality({k \in DOMAIN bucket : bucket[k] = p})

\* how many pairs of a bucket of pairs have the reference record at p first
InPairs(bucket, p) == Cardinality({k \in DOMAIN bucket : bucket[k][1] = p})

\* C5: every reference record is in at most one of missing_in_es,
\* time_drifts and index_mismatches, at most once; a record in none of them
\* has no issue.  It holds while the classifier runs, of the records
\* classified so far.
C5_OneOutcomePerRecord ==
    pc \in {"classifier_loop", "done"} =>
        /\ \A p \in DOMAIN en_subs :
              InBucket(issues.missing_in_es, p) + InPairs(issues.time_drifts, p)
                  + InPairs(issues.index_mismatches, p)
              <= (IF p < cursor THEN 1 ELSE 0)
        /\ \A k \in DOMAIN issues.missing_in_es :
              issues.missing_in_es[k] \in DOMAIN en_subs
        /\ \A k \in DOMAIN issues.time_drifts :
              issues.time_drifts[k][1] \in DOMAIN en_subs
        /\ \A k \in DOMAIN issues.index_mismatches :
              issues.index_mismatches[k][1] \in DOMAIN en_subs

\* a run that filled the three buckets of reference records
C5_Witness ==
    /\ pc = "done"
    /\ Len(en_subs) = MaxEnLen
    /\ Len(issues.time_drifts) >= 1
    /\ Len(issues.index_mismatches) + Len(issues.missing_in_es) >= 1

\* the candidate records that start exactly at the start of reference p
ExactCandidates(p) ==
    {q \in DOMAIN es_subs : es_subs[q].timestamp_ms = en_subs[p].timestamp_ms}

Distance(p, q) == Abs(es_subs[q].timestamp_ms - en_subs[p].timestamp_ms)

\* the smallest distance from reference p to a candidate record
Nearest(p) ==
    LET q == CHOOSE q \in DOMAIN es_subs :
                 \A r \in DOMAIN es_subs : Distance(p, q) <= Distance(p, r)
    IN  Distance(p, q)

\* C6: a reference record without exact match is missing when no candidate
\* is within 500 ms, a time drift paired with a nearest candidate when the
\* nearest is over 200 ms and at most 500 ms away, and has no issue when the
\* nearest is at most 200 ms away; the scenario of the specification yields
\* no issue for #1 and missing for #2.
C6_NearMatchRule ==
    pc = "done" =>
        /\ \A p \in DOMAIN en_subs :
              ExactCandidates(p) = {} =>
                 LET missing == InBucket(issues.missing_in_es, p)
                     drifts == {k \in DOMAIN issues.time_drifts :
                                   issues.time_drifts[k][1] = p}
                 IN  /\ InPairs(issues.index_mismatches, p) = 0
                     /\ IF es_subs = <<>> \/ Nearest(p) > 500
                        THEN missing = 1 /\ drifts = {}
                        ELSE IF Nearest(p) > 200
                        THEN /\ missing = 0
                             /\ Cardinality(drifts) = 1
                             /\ \A k \in drifts :
                                   /\ issues.time_drifts[k][2] \in DOMAIN es_subs
                                   /\ Distance(p, issues.time_drifts[k][2]) = Nearest(p)
                        ELSE missing = 0 /\ drifts = {}
        /\ (en_subs = ScenarioEn /\ es_subs = ScenarioEs) =>
              /\ issues.missing_in_es = <<2>>
              /\ issues.time_drifts = <<>>
              /\ issues.index_mismatches = <<>>
              /\ issues.duplicates_in_es = <<>>

\* a run with a missing record (501 ms away) and a drift of 201 ms
C6_Witness ==
    /\ pc = "done"
    /\ es_subs # <<>>
    /\ \E p \in DOMAIN en_subs :
          /\ ExactCandidates(p) = {}
          /\ Nearest(p) = 501
          /\ InBucket(issues.missing_in_es, p) = 1
    /\ \E p \in DOMAIN en_subs :
          /\ ExactCandidates(p) = {}
          /\ Nearest(p) = 201
          /\ InPairs(issues.time_drifts, p) = 1

\* the positions of a set of candidate records in source order
RECURSIVE InSourceOrder(_)
InSourceOrder(S) ==
    IF S = {} THEN <<>>
    ELSE LET first == CHOOSE q \in S : \A r \in S : q <= r
         IN  <<first>> \o InSourceOrder(S \ {first})

\* the duplicates the claim expects of the reference records 1..n
RECURSIVE ExpectedDuplicates(_)
ExpectedDuplicates(n) ==
    IF n = 0 THEN <<>>
    ELSE IF ExactCandidates(n) = {} THEN ExpectedDuplicates(n - 1)
    ELSE ExpectedDuplicates(n - 1) \o Tail(InSourceOrder(ExactCandidates(n)))

\* C7: a reference record with k >= 1 exact candidates is matched with the
\* first of them in source order; the other k-1, in source order, are added
\* to duplicates_in_es; the pair is an index mismatch exactly when the
\* sequence numbers differ; the record is neither missing nor a time drift.
C7_ExactMatchRule ==
    pc = "done" =>
        /\ \A p \in DOMAIN en_subs :
              ExactCandidates(p) # {} =>
                 LET first == InSourceOrder(ExactCandidates(p))[1]
                     pairs == {k \in DOMAIN issues.index_mismatches :
                                  issues.index_mismatches[k][1] = p}
                 IN  /\ InBucket(issues.missing_in_es, p) = 0
                     /\ InPairs(issues.time_drifts, p) = 0
                     /\ \A k \in pairs : issues.index_mismatches[k][2] = first
                     /\ Cardinality(pairs) =
                           (IF en_subs[p].index # es_subs[first].index THEN 1 ELSE 0)
        /\ issues.duplicates_in_es = ExpectedDuplicates(Len(en_subs))

\* a reference record with three exact candidates, the first of another
\* sequence number than the last
C7_Witness ==
    /\ pc = "done"
    /\ \E p \in DOMAIN en_subs :
          /\ Cardinality(ExactCandidates(p)) >= 3
          /\ InPairs(issues.index_mismatches, p) = 1
          /\ es_subs[1].index # es_subs[Len(es_subs)].index
    /\ Len(issues.duplicates_in_es) >= 2

-----------------------------------------------------------------------------
(* Text: a str is the sequence of its characters; "LF" is the newline and  *)
(* "BOM" the byte-order mark U+FEFF.                                        *)

IsSpace(c) == c \in {" ", "LF"}

\* str.strip()
RECURSIVE LStrip(_)
LStrip(s) == IF s # <<>> /\ IsSpace(Head(s)) THEN LStrip(Tail(s)) ELSE s

RECURSIVE RStrip(_)
RStrip(s) ==
    IF s # <<>> /\ IsSpace(s[Len(s)]) THEN RStrip(SubSeq(s, 1, Len(s) - 1)) ELSE s

Strip(s) == RStrip(LStrip(s))

\* the positions at which sub occurs in s
Occurrences(s, sub) ==
    {k \in 1..(Len(s) - Len(sub) + 1) : SubSeq(s, k, k + Len(sub) - 1) = sub}

\* sub in s
Contains(s, sub) == Occurrences(s, sub) # {}

\* s.split(sep)
RECURSIVE Split(_, _)
Split(s, sep) ==
    IF Occurrences(s, sep) = {} THEN <<s>>
    ELSE LET k == CHOOSE x \in Occurrences(s, sep) :
                      \A y \in Occurrences(s, sep) : x <= y
         IN  <<SubSeq(s, 1, k - 1)>> \o Split(SubSeq(s, k + Len(sep), Len(s)), sep)

\* sep.join(parts)
RECURSIVE Join(_, _)
Join(parts, sep) ==
    IF parts = <<>> THEN <<>>
    ELSE IF Len(parts) = 1 THEN parts[1]
    ELSE parts[1] \o sep \o Join(Tail(parts), sep)

\* s.replace(',', ':')
ReplaceChar(s, a, b) == [k \in DOMAIN s |-> IF s[k] = a THEN b ELSE s[k]]

Digits == {"0", "1", "2", "3", "4", "5", "6", "7", "8", "9"}

DigitValue(c) ==
    CASE c = "0" -> 0 [] c = "1" -> 1 [] c = "2" -> 2 [] c = "3" -> 3
      [] c = "4" -> 4 [] c = "5" -> 5 [] c = "6" -> 6 [] c = "7" -> 7
      [] c = "8" -> 8 [] c = "9" -> 9

\* int(s) accepts surrounding whitespace, one sign and decimal digits
Unsigned(s) ==
    LET t == Strip(s)
    IN  IF t # <<>> /\ Head(t) \in {"+", "-"} THEN Tail(t) ELSE t

IsIntText(s) ==
    /\ Unsigned(s) # <<>>
    /\ \A k \in DOMAIN Unsigned(s) : Unsigned(s)[k] \in Digits

RECURSIVE Decimal(_)
Decimal(ds) ==
    IF ds = <<>> THEN 0
    ELSE Decimal(SubSeq(ds, 1, Len(ds) - 1)) * 10 + DigitValue(ds[Len(ds)])

IntValue(s) ==
    IF Head(Strip(s)) = "-" THEN -Decimal(Unsigned(s)) ELSE Decimal(Unsigned(s))

-----------------------------------------------------------------------------
(* parse_timestamp and parse_srt_file *)

Arrow == <<"-", "-", ">">>
SpacedArrow == <<" ", "-", "-", ">", " ">>

\* line 20
TimestampParts(text) == Split(ReplaceChar(text, ",", ":"), <<":">>)

\* line 21 raises ValueError unless there are four parts, each an int
TimestampRaises(text) ==
    \/ Len(TimestampParts(text)) # 4
    \/ \E k \in DOMAIN TimestampParts(text) :
          ~IsIntText(TimestampParts(text)[k])

\* line 22
ParseTimestampMutant(text) ==
    LET parts == TimestampParts(text)
    IN  (IntValue(parts[1]) * 3600 + IntValue(parts[2]) * 60
            + IntValue(parts[3]) * 1000) + IntValue(parts[4])
ParseTimestamp(text) ==
    LET parts == TimestampParts(text)
        hours == IntValue(parts[1])
        minutes == IntValue(parts[2])
        seconds == IntValue(parts[3])
        ms == IntValue(parts[4])
    IN  ((hours * 3600 + minutes * 60 + seconds) * 1000) + ms

\* line 40
BlockLines(block) == Split(Strip(block), <<"LF">>)

\* lines 45-53: the exception the try body raises on the lines of a block
\* that reached it and holds the arrow, or "none"
TryRaises(lines) ==
    IF ~IsIntText(lines[1]) THEN "ValueError"
    ELSE IF ~Contains(lines[2], Arrow) THEN "none"
    ELSE IF Len(Split(lines[2], SpacedArrow)) # 2 THEN "ValueError"
    ELSE IF TimestampRaises(Strip(Split(lines[2], SpacedArrow)[1])) THEN "ValueError"
    ELSE "none"

\* line 64: except (ValueError, IndexError)
Caught(exc) == exc \in {"ValueError", "IndexError"}

\* lines 45-63: the record of a block that passes
ParsedSubtitle(lines) ==
    LET sides == Split(lines[2], SpacedArrow)
    IN  [index |-> IntValue(lines[1]),
         start_time |-> Strip(sides[1]),
         end_time |-> Strip(sides[2]),
         text |-> Join(SubSeq(lines, 3, Len(lines)), <<"LF">>),
         timestamp_ms |-> ParseTimestamp(Strip(sides[1]))]

\* lines 31-32
DropBOM(text) == IF text # <<>> /\ Head(text) = "BOM" THEN Tail(text) ELSE text

\* lines 26-34
ParserStart ==
    /\ pc = "parser_start"
    /\ subtitles' = <<>>
    /\ blocks' = Split(DropBOM(Strip(content)), <<"LF", "LF">>)
    /\ cursor' = 1
    /\ pc' = "parser_loop"
    /\ UNCHANGED <<codecVars, content, tracks, maps, i, finderVars, verifierVars,
                   classifierVars, result, raised>>

ParserInLoop ==
    /\ pc = "parser_loop"
    /\ cursor <= Len(blocks)

ParserContinue ==
    /\ cursor' = cursor + 1
    /\ UNCHANGED <<codecVars, subtitles, pc, content, blocks, tracks, maps, i, finderVars,
                   verifierVars, classifierVars, result, raised>>

\* lines 37-38
ParserSkipBlank ==
    /\ ParserInLoop
    /\ Strip(blocks[cursor]) = <<>>
    /\ ParserContinue

\* lines 40-42
ParserSkipShort ==
    /\ ParserInLoop
    /\ Strip(blocks[cursor]) # <<>>
    /\ Len(BlockLines(blocks[cursor])) < 3
    /\ ParserContinue

ParserInTry ==
    /\ ParserInLoop
    /\ Strip(blocks[cursor]) # <<>>
    /\ Len(BlockLines(blocks[cursor])) >= 3

\* lines 49-50
ParserSkipNoArrow ==
    /\ ParserInTry
    /\ TryRaises(BlockLines(blocks[cursor])) = "none"
    /\ ~Contains(BlockLines(blocks[cursor])[2], Arrow)
    /\ ParserContinue

\* lines 64-65: the handler goes on with the next block; an exception it
\* does not name leaves parse_srt_file
ParserExcept ==
    /\ ParserInTry
    /\ TryRaises(BlockLines(blocks[cursor])) # "none"
    /\ IF Caught(TryRaises(BlockLines(blocks[cursor])))
       THEN ParserContinue
       ELSE /\ raised' = TryRaises(BlockLines(blocks[cursor]))
            /\ pc' = "raised"
            /\ UNCHANGED <<codecVars, cursor, subtitles, content, blocks, tracks, maps, i,
                           finderVars, verifierVars, classifierVars, result>>

\* lines 52-63
ParserAppend ==
    /\ ParserInTry
    /\ TryRaises(BlockLines(blocks[cursor])) = "none"
    /\ Contains(BlockLines(blocks[cursor])[2], Arrow)
    /\ subtitles' = Append(subtitles, ParsedSubtitle(BlockLines(blocks[cursor])))
    /\ cursor' = cursor + 1
    /\ UNCHANGED <<codecVars, pc, content, blocks, tracks, maps, i, finderVars, verifierVars,
                   classifierVars, result, raised>>

\* line 67
ParserReturn ==
    /\ pc = "parser_loop"
    /\ cursor > Len(blocks)
    /\ result' = subtitles
    /\ pc' = "done"
    /\ UNCHANGED <<codecVars, cursor, parserVars, tracks, maps, i, finderVars, verifierVars,
                   classifierVars, raised>>

\* The blocks a file is made of
ClockA == <<"0", "0", ":", "0", "0", ":", "0", "1", ",", "0", "0", "0">>
ClockB == <<"0", "1", ":", "0", "2", ":", "0", "3", ",", "0", "4", "0">>
ClockBad == <<"0", "0", ":", "x", ":", "0", "1", ",", "0", "0", "0">>
ClockShort == <<"0", "2", ":", "0", "3", ",", "0", "4", "0">>

BlockOf(lines) == Join(lines, <<"LF">>)

SampleBlocks ==
    { \* well formed
      BlockOf(<< <<"1">>, ClockA \o SpacedArrow \o ClockB, <<"h", "i">> >>),
      \* well formed: two text lines, an end clock that is no clock
      BlockOf(<< <<"1", "2">>, ClockB \o SpacedArrow \o <<"x">>, <<"a">>, <<"b">> >>),
      \* fewer than three lines
      BlockOf(<< <<"3">>, ClockA \o SpacedArrow \o ClockB >>),
      \* the sequence line is no integer
      BlockOf(<< <<"x">>, ClockA \o SpacedArrow \o ClockB, <<"h", "i">> >>),
      \* no separator in the time line
      BlockOf(<< <<"4">>, ClockA \o <<" ">> \o ClockB, <<"h", "i">> >>),
      \* the separator without the spaces around it
      BlockOf(<< <<"5">>, ClockA \o Arrow \o ClockB, <<"h", "i">> >>),
      \* two separators
      BlockOf(<< <<"6">>, ClockA \o SpacedArrow \o ClockB \o SpacedArrow \o ClockB,
                 <<"h", "i">> >>),
      \* start clocks that do not decode
      BlockOf(<< <<"7">>, ClockBad \o SpacedArrow \o ClockB, <<"h", "i">> >>),
      BlockOf(<< <<"8">>, ClockShort \o SpacedArrow \o ClockB, <<"h", "i">> >>) }

InitParser ==
    /\ \E bs \in SeqsUpTo(SampleBlocks, MaxBlocks), bom \in {<<>>, <<"BOM">>} :
          content = bom \o Join(bs, <<"LF", "LF">>) \o <<"LF">>
    /\ blocks = <<>>
    /\ time_str = <<>> /\ clock = <<>>
    /\ en_subs = <<>> /\ es_subs = <<>>
    /\ pc = "parser_start"
    /\ Idle

NextParser ==
    \/ ParserStart
    \/ ParserSkipBlank
    \/ ParserSkipShort
    \/ ParserSkipNoArrow
    \/ ParserExcept
    \/ ParserAppend
    \/ ParserReturn

SpecParser == InitParser /\ [][NextParser]_vars

-----------------------------------------------------------------------------
(* Properties of parse_srt_file *)

\* the start clock of a time line: the text before the separator token
StartClock(time_line) == Strip(Split(time_line, Arrow)[1])

\* a block none of the four reasons of C10 drops: it has three lines or
\* more, an integer sequence line, a time line with the separator token and
\* a start clock that decodes
WellFormed(block) ==
    LET lines == BlockLines(block)
    IN  /\ Len(lines) >= 3
        /\ IsIntText(lines[1])
        /\ Contains(lines[2], Arrow)
        /\ ~TimestampRaises(StartClock(lines[2]))

\* the sequence numbers of the well-formed blocks among the first n, in
\* source order
RECURSIVE WellFormedIndices(_)
WellFormedIndices(n) ==
    IF n = 0 THEN <<>>
    ELSE IF WellFormed(blocks[n])
         THEN Append(WellFormedIndices(n - 1), IntValue(BlockLines(blocks[n])[1]))
         ELSE WellFormedIndices(n - 1)

\* C10 (as claimed): the parser never aborts, and the track it returns is
\* exactly the well-formed blocks, in source order.
C10_TrackIsTheWellFormedBlocks ==
    /\ pc # "raised"
    /\ pc = "done" =>
          [k \in DOMAIN result |-> result[k].index] = WellFormedIndices(Len(blocks))

-----------------------------------------------------------------------------
(* Properties of the walk of find_last_good_sync *)

\* the last sequence number the finder walks
WalkEnd == Min(MaxOf(Indices(en_subs)), MaxOf(Indices(es_subs)))

\* the five sequence numbers n-4..n are all present in both tracks and
\* within 500 ms
RunEndsAt(n) == n >= 5 /\ \A k \in (n - 4)..n : Aligned(k)

\* every pair of same-numbered records differs by more than 500 ms
AllPairsFar ==
    \A p \in DOMAIN en_subs, q \in DOMAIN es_subs :
        en_subs[p].index = es_subs[q].index
            => Abs(en_subs[p].timestamp_ms - es_subs[q].timestamp_ms) > 500

\* C11: the finder returns 0 whenever no run of five consecutive sequence
\* numbers of 1..min(max reference index, max candidate index) is present in
\* both tracks and within 500 ms, in particular when every pair of
\* same-numbered records differs by more than 500 ms.
C11_ZeroWithoutRunOfFive ==
    pc = "done" =>
        /\ (\A n \in 1..WalkEnd : ~RunEndsAt(n)) => result = 0
        /\ AllPairsFar => result = 0

\* a walk over all of 1..MaxIndex that returns 0 although four consecutive
\* numbers are aligned
C11_Witness ==
    /\ pc = "done"
    /\ result = 0
    /\ WalkEnd = MaxIndex
    /\ \E n \in 4..MaxIndex : \A k \in (n - 3)..n : Aligned(k)

\* the largest sequence number of the walk that ends a run of five, or 0
LargestRunEnd ==
    IF \E n \in 1..WalkEnd : RunEndsAt(n)
    THEN MaxOf({n \in 1..WalkEnd : RunEndsAt(n)})
    ELSE 0

\* C13: during the walk L never decreases; the step of sequence number i
\* sets L to i exactly when i-4..i are all present in both tracks and within
\* 500 ms, and leaves L alone otherwise, in particular when one of the
\* numbers i-4..i was a gap or a difference above 500 ms; the L returned is
\* the largest such i, or 0 when there is none.
C13_StreakRule ==
    [][ pc = "finder_loop" =>
          /\ last_good' >= last_good
          /\ i' = i + 1 =>
                /\ (last_good' = i) <=> RunEndsAt(i)
                /\ ~RunEndsAt(i) => last_good' = last_good
                /\ (\E j \in 1..i : j >= i - 4 /\ ~Aligned(j))
                      => last_good' = last_good
          /\ pc' = "done" => result' = LargestRunEnd ]_vars

\* record 1 is out of tolerance, so L stays 0 through 1..5 and is set at 6
C13_Witness ==
    /\ pc = "done"
    /\ 1 \in Indices(en_subs) /\ 1 \in Indices(es_subs)
    /\ ~Aligned(1)
    /\ result = 6

-----------------------------------------------------------------------------
(* parse_timestamp on its own *)

\* lines 18-22: the call either returns the milliseconds or raises
CodecParse ==
    /\ pc = "codec_start"
    /\ IF TimestampRaises(time_str)
       THEN /\ raised' = "ValueError"
            /\ pc' = "raised"
            /\ UNCHANGED result
       ELSE /\ result' = ParseTimestamp(time_str)
            /\ pc' = "codec_done"
            /\ UNCHANGED raised
    /\ UNCHANGED <<time_str, clock, cursor, parserVars, tracks, maps, i, finderVars,
                   verifierVars, classifierVars>>

\* The clock texts given to parse_timestamp: 3..MaxClockParts components,
\* each one of the texts below, joined by ':' with ',' or ':' before the
\* last one.
ComponentTexts ==
    { <<"0">>, <<"0", "7">>, <<"1", "0", "0">>, <<"x">>, <<>> }

ClockText(c) ==
    Join(SubSeq(c.parts, 1, Len(c.parts) - 1), <<":">>)
        \o (IF c.comma THEN <<",">> ELSE <<":">>)
        \o c.parts[Len(c.parts)]

InitCodec ==
    /\ \E n \in 3..MaxClockParts, comma \in BOOLEAN :
          \E parts \in [1..n -> ComponentTexts] :
              /\ clock = [parts |-> parts, comma |-> comma]
              /\ time_str = ClockText(clock)
    /\ content = <<>> /\ blocks = <<>>
    /\ en_subs = <<>> /\ es_subs = <<>>
    /\ pc = "codec_start"
    /\ Idle

\* parse_timestamp on a clock text, and parse_srt_file, which calls it
InitCodecAndParser == InitCodec \/ InitParser

NextCodecAndParser == CodecParse \/ NextParser

SpecCodec == InitCodecAndParser /\ [][NextCodecAndParser]_vars

-----------------------------------------------------------------------------
(* Properties of parse_timestamp *)

\* the number a component text of the clock is written for
IsNumberText(t) == t \in { <<"0">>, <<"0", "7">>, <<"1", "0", "0">> }

NumberOf(t) ==
    CASE t = <<"0">> -> 0
      [] t = <<"0", "7">> -> 7
      [] t = <<"1", "0", "0">> -> 100

\* the milliseconds of the start clocks the sample blocks are written with
KnownClockMs(t) ==
    CASE t = ClockA -> 1000
      [] t = ClockB -> 3723040

\* C12: a clock text of exactly four integer components H, M, S, ms decodes
\* to ((H*3600 + M*60 + S) * 1000) + ms, whatever H; any other text makes
\* parse_timestamp fail; and the timestamp_ms of every parsed record is the
\* decoded value of its start_time.
C12_TimestampCodec ==
    /\ (pc \in {"codec_done", "raised"}) =>
          IF Len(clock.parts) = 4 /\ \A k \in 1..4 : IsNumberText(clock.parts[k])
          THEN /\ pc = "codec_done"
               /\ result = ((NumberOf(clock.parts[1]) * 3600
                             + NumberOf(clock.parts[2]) * 60
                             + NumberOf(clock.parts[3])) * 1000)
                           + NumberOf(clock.parts[4])
          ELSE pc = "raised" /\ raised = "ValueError"
    /\ pc = "done" =>
          \A k \in DOMAIN result :
              /\ ~TimestampRaises(result[k].start_time)
              /\ result[k].timestamp_ms = ParseTimestamp(result[k].start_time)
              /\ result[k].timestamp_ms = KnownClockMs(result[k].start_time)

\* a clock of 100 hours, 7 minutes, 7 seconds and 7 milliseconds
C12_Witness ==
    /\ pc = "codec_done"
    /\ clock.comma
    /\ clock.parts = << <<"1", "0", "0">>, <<"0", "7">>, <<"0", "7">>, <<"0", "7">> >>
    /\ result = 360427007

-----------------------------------------------------------------------------
(* Properties of the duplicates bucket of find_sync_issues *)

CandidateTimestamps == {es_subs[q].timestamp_ms : q \in DOMAIN es_subs}

\* C14 (as claimed): each candidate record appears at most once in
\* duplicates_in_es, so the duplicate count reported is at most the number
\* of candidate records minus the number of distinct candidate timestamps.
C14_NoRepeatedDuplicates ==
    pc = "done" =>
        /\ \A q \in DOMAIN es_subs : InBucket(issues.duplicates_in_es, q) <= 1
        /\ Len(issues.duplicates_in_es)
              <= Len(es_subs) - Cardinality(CandidateTimestamps)

-----------------------------------------------------------------------------
(* The tools together: a run is one tool on one input *)

Init == InitFinder \/ InitVerifier \/ InitClassifier \/ InitCodecAndParser

Next ==
    NextFinder \/ NextVerifier \/ NextClassifier \/ NextCodecAndParser

Spec == Init /\ [][Next]_vars

====
